---- MODULE Spec2Model ----
(***************************************************************************)
(* Model of scripts/gen_docs.py: DocsGenerator, the documentation stub     *)
(* generator.  A string is a sequence of one-character strings, a Path is  *)
(* the sequence of its parts (Path(".") is the empty sequence), so that    *)
(* suffix handling, splitting, trimming and path mirroring are computed    *)
(* the way pathlib and str compute them.                                   *)
(***************************************************************************)
EXTENDS Integers, Sequences, FiniteSets, TLC

\* ------------------------------------------------------------------ bounds
\* most files a source tree holds
MaxFiles == 2
\* largest concurrency a configuration is given
MaxConcurrency == 2
\* number of gen_docs calls made on one configuration object
MaxRuns == 2

\* ------------------------------------------------------------- characters
DOT == "."
COMMA == ","
SPACE == " "
UNDERSCORE == "_"

\* string literals of the program and of the modelled file trees
s_py == <<"p", "y">>
s_ipynb == <<"i", "p", "y", "n", "b">>
s_dot_py == <<DOT>> \o s_py
s_dot_ipynb == <<DOT>> \o s_ipynb
s_dot_md == <<DOT, "m", "d">>
s_venv == <<DOT, "v", "e", "n", "v">>
s_init_py == <<UNDERSCORE, UNDERSCORE, "i", "n", "i", "t", UNDERSCORE, UNDERSCORE>> \o s_dot_py
s_src == <<"s", "r", "c">>
s_docs == <<"d", "o", "c", "s">>
s_a == <<"a">>
s_x == <<"x">>
s_b_py == <<"b">> \o s_dot_py
s_b_ipynb == <<"b">> \o s_dot_ipynb
s_c_txt == <<"c", DOT, "t", "x", "t">>
s_n_py == <<"n">> \o s_dot_py
s_notes_ipynb == <<"n", "o", "t", "e", "s">> \o s_dot_ipynb
s_dir == <<"d", "i", "r">>
s_missing == <<"m", "i", "s", "s">>
s_prefix == <<":", ":", ":", SPACE>>
s_Foo == <<"F", "o", "o">>
s_Bar == <<UNDERSCORE, "B", "a", "r">>
s_Inner == <<"I", "n", "n", "e", "r">>
s_Local == <<"L", "o", "c", "a", "l">>
s_f == <<"f">>

\* ---------------------------------------------------------------- str ops
IsSpace(c) == c = SPACE

RECURSIVE lstrip(_)
lstrip(s) == IF s # <<>> /\ IsSpace(Head(s)) THEN lstrip(Tail(s)) ELSE s

RECURSIVE rstrip(_)
rstrip(s) ==
    IF s # <<>> /\ IsSpace(s[Len(s)]) THEN rstrip(SubSeq(s, 1, Len(s) - 1)) ELSE s

\* str.strip()
strip(s) == rstrip(lstrip(s))

\* str.split(","): the fields between the commas, empty fields kept
RECURSIVE split_from(_, _, _)
split_from(s, i, cur) ==
    IF i > Len(s) THEN <<cur>>
    ELSE IF s[i] = COMMA THEN <<cur>> \o split_from(s, i + 1, <<>>)
    ELSE split_from(s, i + 1, Append(cur, s[i]))

split(s) == split_from(s, 1, <<>>)

\* str.endswith(t)
endswith(s, t) == Len(s) >= Len(t) /\ SubSeq(s, Len(s) - Len(t) + 1, Len(s)) = t

\* str.startswith(t)
startswith(s, t) == Len(s) >= Len(t) /\ SubSeq(s, 1, Len(t)) = t

\* str.rfind("."), one-based, 0 when there is none
rfind_dot(s) ==
    LET at == {i \in 1..Len(s) : s[i] = DOT}
    IN  IF at = {} THEN 0 ELSE CHOOSE i \in at : \A j \in at : j <= i

SeqRange(s) == {s[i] : i \in 1..Len(s)}

\* --------------------------------------------------------------- Path ops
\* PurePath.name
name(p) == IF p = <<>> THEN <<>> ELSE p[Len(p)]

\* PurePath.parent (the parent of Path(".") is Path("."))
parent(p) == IF p = <<>> THEN <<>> ELSE SubSeq(p, 1, Len(p) - 1)

\* PurePath.suffix: from the last dot, unless the dot leads or ends the name
suffix(p) ==
    LET n == name(p)
        i == rfind_dot(n)
    IN  IF 1 < i /\ i < Len(n) THEN SubSeq(n, i, Len(n)) ELSE <<>>

\* PurePath.with_suffix(s)
with_suffix(p, s) ==
    LET n == name(p)
        stem == SubSeq(n, 1, Len(n) - Len(suffix(p)))
    IN  Append(parent(p), stem \o s)

\* PurePath.as_posix(): the parts joined by "/", "." for the empty path.
\* Kept as the part sequence; its comparison with "." is as_posix_is_dot.
as_posix_is_dot(p) == p = <<>>

\* as_posix().replace("/", "."): the parts joined by dots
RECURSIVE dotted(_)
dotted(p) ==
    IF p = <<>> THEN <<DOT>>
    ELSE IF Len(p) = 1 THEN p[1]
    ELSE p[1] \o <<DOT>> \o dotted(Tail(p))

\* other is a leading part sequence of p
is_relative_to(p, other) == Len(other) <= Len(p) /\ SubSeq(p, 1, Len(other)) = other

\* PurePath.relative_to(other), defined when is_relative_to; ValueError otherwise
relative_to(p, other) == SubSeq(p, Len(other) + 1, Len(p))

\* ------------------------------------------------------- python sources
\* What ast.parse gives for a code file: a Module whose body is a sequence of
\* ClassDef and FunctionDef nodes, each with a body of its own.
Node(t, n, b) == [type |-> t, name |-> n, body |-> b]
Module(b) == Node("Module", <<>>, b)
ClassDef(n, b) == Node("ClassDef", n, b)
FunctionDef(n, b) == Node("FunctionDef", n, b)

\* class Foo: ...   class _Bar: ...
ast_Foo_Bar == Module(<<ClassDef(s_Foo, <<>>), ClassDef(s_Bar, <<>>)>>)
\* class Foo: (class Inner: ...)   def f(): (class Local: ...)
ast_Nested ==
    Module(<<ClassDef(s_Foo, <<ClassDef(s_Inner, <<>>)>>),
             FunctionDef(s_f, <<ClassDef(s_Local, <<>>)>>)>>)
\* def f(): ...
ast_NoClass == Module(<<FunctionDef(s_f, <<>>)>>)
\* a file ast.parse rejects
SyntaxError == Node("SyntaxError", <<>>, <<>>)

Asts == {ast_Foo_Bar, ast_Nested, ast_NoClass, SyntaxError}

\* ast.walk(tree): breadth first, the node itself first
RECURSIVE walk_queue(_)
walk_queue(todo) ==
    IF todo = <<>> THEN <<>>
    ELSE <<Head(todo)>> \o walk_queue(Tail(todo) \o Head(todo).body)

walk(tree) == walk_queue(<<tree>>)

\* ----------------------------------------------------------- file trees
f_a_b_py == <<s_src, s_a, s_b_py>>
f_a_b_ipynb == <<s_src, s_a, s_b_ipynb>>
f_b_py == <<s_src, s_b_py>>
f_a_init == <<s_src, s_a, s_init_py>>
f_venv_b_py == <<s_src, s_venv, s_b_py>>
f_x_b_py == <<s_src, s_x, s_b_py>>
f_a_c_txt == <<s_src, s_a, s_c_txt>>

\* the files a tree under ./src is made of
TreeFiles == {f_a_b_py, f_a_b_ipynb, f_b_py, f_a_init, f_venv_b_py, f_x_b_py, f_a_c_txt}

\* sources that are one file: ./notes.ipynb, ./dir/n.py, ./c.txt
f_notes == <<s_notes_ipynb>>
f_dir_n_py == <<s_dir, s_n_py>>
f_c_txt == <<s_c_txt>>
SingleFiles == {f_notes, f_dir_n_py, f_c_txt}

\* a path that is neither a file nor a directory
p_missing == <<s_missing>>

AllFiles == TreeFiles \cup SingleFiles

\* the --exclude strings: the default ".venv" and " x , a"
ex_default == s_venv
ex_spaced == <<SPACE>> \o s_x \o <<SPACE, COMMA, SPACE>> \o s_a
Excludes == {ex_default, ex_spaced}

\* --output ./docs
p_docs == <<s_docs>>
\* a stub that an earlier job left in the output directory: docs/x/b.md
stale_stub == [path |-> <<s_docs, s_x, <<"b">> \o s_dot_md>>, src |-> f_x_b_py, run |-> 0,
               content |-> <<>>]

\* ------------------------------------------------------------------ state
VARIABLES
    source_path,    \* config: --source
    exclude,        \* config: --exclude
    mode,           \* config: --mode, "file" or "class"
    execute,        \* config: --execute
    concurrency,    \* config: --concurrency
    tree,           \* the files that exist on the source side
    dirs,           \* the directories that exist on the source side
    source_text,    \* what ast.parse makes of each code file
    out_exists,     \* output_path.exists()
    out_files,      \* the files under output_path: [path, src, run, content]
    cache,          \* the cached_property source_files: [set, files]
    pc,             \* where gen_docs is: idle, batch, done, nofiles, error
    error,          \* the exception that left gen_docs, "" when none did
    run,            \* which call of gen_docs on this object this is
    status,         \* per file: none, discovered, reading, writing, written, skipped, failed
    semaphore,      \* the value of the asyncio.Semaphore of _process_batch
    results,        \* per file, what its task returned (<<>> is "")
    total_files,    \* len(self.source_files) as gen_docs took it
    successful,     \* the count in the final summary
    injected,       \* files whose generation met an I/O error in this run
    wiped,          \* the runs in which shutil.rmtree removed the output directory
    touched,        \* the runs in which a stub was unlinked or written, or a task began
    tree_changed    \* the source tree changed since the last call

vars == <<source_path, exclude, mode, execute, concurrency, tree, dirs, source_text,
          out_exists, out_files, cache, pc, error, run, status, semaphore, results,
          total_files, successful, injected, wiped, touched, tree_changed>>

config == <<source_path, exclude, mode, execute, concurrency>>
source_side == <<tree, dirs, source_text>>

\* the output path of the job
output_path == p_docs

\* Path.is_dir(), Path.is_file()
is_dir(p) == p \in dirs
is_file(p) == p \in tree

\* ----------------------------------------------------------- discovery
\* Path.rglob("*.<target>"): the files below src whose name ends in .<target>
rglob(src, target) ==
    {f \in tree : f # src /\ is_relative_to(f, src) /\ endswith(name(f), <<DOT>> \o target)}

\* _get_all_files(suffix)
get_all_files(suffix_list) ==
    LET targets == {strip(s) : s \in SeqRange(split(suffix_list))}
    IN  UNION {rglob(source_path, target) : target \in targets}

\* need_to_exclude with the entries of --exclude taken as split, untrimmed
need_to_exclude_unstripped == SeqRange(split(exclude)) \cup {s_venv, s_init_py}

\* need_to_exclude of source_files
need_to_exclude ==
    LET exclude_list == {strip(ex) : ex \in SeqRange(split(exclude))}
    IN  exclude_list \cup {s_venv, s_init_py}

\* the directory branch of source_files: the filtered list
filtered_files ==
    {file \in get_all_files(s_py \o <<COMMA>> \o s_ipynb) :
        ~ \E f \in need_to_exclude : f \in SeqRange(file)}

\* what the body of source_files returns (when it does not raise)
compute_source_files == IF is_dir(source_path) THEN filtered_files ELSE {source_path}

\* the body of source_files raises ValueError("Invalid source path")
source_invalid == ~is_dir(source_path) /\ ~is_file(source_path)

\* self.source_files: the cached value when there is one
source_files == IF cache.set THEN cache.files ELSE compute_source_files

\* the output directory removed in the single-file branch instead of the
\* directory branch
rmtree_runs_for_file == ~cache.set /\ is_file(source_path) /\ out_exists

\* the body of source_files runs (a first access) and removes the output directory
rmtree_runs == ~cache.set /\ is_dir(source_path) /\ out_exists

\* The effect of the first access of self.source_files in gen_docs, line 228.
AccessSourceFiles ==
    /\ cache' = [set |-> TRUE, files |-> source_files]
    /\ IF rmtree_runs
       THEN /\ out_exists' = FALSE
            /\ out_files' = {}
            /\ wiped' = wiped \cup {run}
       ELSE UNCHANGED <<out_exists, out_files, wiped>>

\* ------------------------------------------------------ stub generation
\* _prepare_docs_path raises: parent.relative_to(source_path) is a ValueError
prepare_raises(file) ==
    /\ ~as_posix_is_dot(parent(file))
    /\ ~is_relative_to(parent(file), source_path)

\* the docs_path _prepare_docs_path returns
prepare_docs_path(file) ==
    LET filename == name(with_suffix(file, s_dot_md))
    IN  IF ~as_posix_is_dot(parent(file))
        THEN output_path \o relative_to(parent(file), source_path) \o <<filename>>
        ELSE output_path \o <<filename>>

\* file.with_suffix('').as_posix().replace('/', '.')
module_ref(file) == dotted(with_suffix(file, <<>>))

\* the reference line of a whole file
file_line(file) == s_prefix \o module_ref(file)

\* the reference line of a class of a file
class_line(file, node) == s_prefix \o module_ref(file) \o <<DOT>> \o node.name

\* the nodes of the tree the loop of _gen_python_docs emits a line for
IsEmitted(node) == node.type = "ClassDef"

\* note_content of _gen_python_docs, as the sequence of its lines
note_content(file, m, parsed) ==
    LET emitted == SelectSeq(walk(parsed), IsEmitted)
        lines == IF m = "file" THEN <<file_line(file)>>
                 ELSE [i \in 1..Len(emitted) |-> class_line(file, emitted[i])]
    IN  IF lines = <<>> THEN <<file_line(file)>> ELSE lines

\* what _gen_notebook_docs writes: the notebook rendered, with cell outputs
\* when it was executed first
markdown_output(file) == <<[notebook |-> file, executed |-> execute]>>

\* docs_path.unlink(missing_ok=True)
unlink(files, path) == {r \in files : r.path # path}

\* writing content to path, for file, in this run
write(files, path, file, content) ==
    unlink(files, path) \cup {[path |-> path, src |-> file, run |-> run, content |-> content]}

\* the file has reached the end of its state machine
Terminal(f) == status[f] \in {"written", "skipped", "failed"}

\* ------------------------------------------------------------- gen_docs
\* gen_docs, line 228: source_files raises ValueError("Invalid source path")
GenDocsInvalidSource ==
    /\ pc = "idle"
    /\ ~cache.set
    /\ source_invalid
    /\ pc' = "error"
    /\ error' = "ValueError: Invalid source path"
    /\ UNCHANGED <<config, source_side, out_exists, out_files, cache, run, status,
                   semaphore, results, total_files, successful, injected, wiped,
                   touched, tree_changed>>

\* gen_docs, lines 228-233: nothing was discovered
GenDocsNoFiles ==
    /\ pc = "idle"
    /\ cache.set \/ ~source_invalid
    /\ source_files = {}
    /\ AccessSourceFiles
    /\ total_files' = 0
    /\ pc' = "nofiles"
    /\ tree_changed' = FALSE
    /\ UNCHANGED <<config, source_side, error, run, status, semaphore, results,
                   successful, injected, touched>>

\* gen_docs, line 236: asyncio.Semaphore(self.concurrency) raises ValueError
GenDocsBadSemaphore ==
    /\ pc = "idle"
    /\ cache.set \/ ~source_invalid
    /\ source_files # {}
    /\ concurrency < 0
    /\ AccessSourceFiles
    /\ total_files' = Cardinality(source_files)
    /\ pc' = "error"
    /\ error' = "ValueError: Semaphore initial value must be >= 0"
    /\ tree_changed' = FALSE
    /\ UNCHANGED <<config, source_side, run, status, semaphore, results, successful,
                   injected, touched>>

\* gen_docs, lines 228-236 and _process_batch: one task per file is created
GenDocsBatch ==
    /\ pc = "idle"
    /\ cache.set \/ ~source_invalid
    /\ source_files # {}
    /\ concurrency >= 0
    /\ AccessSourceFiles
    /\ total_files' = Cardinality(source_files)
    /\ semaphore' = concurrency
    /\ status' = [f \in AllFiles |-> IF f \in source_files THEN "discovered" ELSE "none"]
    /\ pc' = "batch"
    /\ tree_changed' = FALSE
    /\ UNCHANGED <<config, source_side, error, run, results, successful, injected,
                   touched>>

\* ---------------------------------------------------------------- tasks
\* _process_file entered without waiting for the gate
CanBegin_ungated(f) ==
    /\ pc = "batch"
    /\ status[f] = "discovered"

\* process_with_semaphore can enter _process_file for f: the gate is free
CanBegin(f) ==
    /\ pc = "batch"
    /\ status[f] = "discovered"
    /\ semaphore > 0

\* the task ends and keeps the permit it held
EndTask_keeps_permit(f, st, res, release) ==
    /\ status' = [status EXCEPT ![f] = st]
    /\ results' = [results EXCEPT ![f] = res]
    /\ UNCHANGED semaphore

\* _process_file returns or catches: the task of f ends with status st and
\* result res.  release is 1 when the gate was held across a suspension and
\* is released now, 0 when acquire and release fall in this same step.
EndTask(f, st, res, release) ==
    /\ status' = [status EXCEPT ![f] = st]
    /\ results' = [results EXCEPT ![f] = res]
    /\ semaphore' = semaphore + release

\* mkdir(parents=True, exist_ok=True) and unlink(missing_ok=True) of
\* _prepare_docs_path
PrepareEffect(f) ==
    /\ out_exists' = TRUE
    /\ out_files' = unlink(out_files, prepare_docs_path(f))

Supported(f) == suffix(f) \in {s_dot_ipynb, s_dot_py}

\* _process_file, lines 201-203: unsupported file type, result ""
BeginUnsupported(f) ==
    /\ CanBegin(f)
    /\ ~Supported(f)
    /\ EndTask(f, "skipped", <<>>, 0)
    /\ touched' = touched \cup {run}
    /\ UNCHANGED <<config, source_side, out_exists, out_files, cache, pc, error, run,
                   total_files, successful, injected, wiped, tree_changed>>

\* _prepare_docs_path raises ValueError at relative_to; _process_file catches it
BeginPrepareRaises(f) ==
    /\ CanBegin(f)
    /\ Supported(f)
    /\ prepare_raises(f)
    /\ EndTask(f, "failed", <<>>, 0)
    /\ touched' = touched \cup {run}
    /\ UNCHANGED <<config, source_side, out_exists, out_files, cache, pc, error, run,
                   total_files, successful, injected, wiped, tree_changed>>

\* mkdir of _prepare_docs_path meets an I/O error; _process_file catches it
BeginPrepareIOError(f) ==
    /\ CanBegin(f)
    /\ Supported(f)
    /\ ~prepare_raises(f)
    /\ EndTask(f, "failed", <<>>, 0)
    /\ injected' = injected \cup {f}
    /\ touched' = touched \cup {run}
    /\ UNCHANGED <<config, source_side, out_exists, out_files, cache, pc, error, run,
                   total_files, successful, wiped, tree_changed>>

\* _gen_python_docs in mode "file": no suspension between acquire and release
BeginPythonFileMode(f) ==
    /\ CanBegin(f)
    /\ suffix(f) = s_dot_py
    /\ mode = "file"
    /\ ~prepare_raises(f)
    /\ out_exists' = TRUE
    /\ \E io_error \in BOOLEAN :
        IF io_error
        THEN /\ out_files' = unlink(out_files, prepare_docs_path(f))
             /\ EndTask(f, "failed", <<>>, 0)
             /\ injected' = injected \cup {f}
        ELSE /\ out_files' = write(out_files, prepare_docs_path(f), f,
                                   note_content(f, mode, source_text[f]))
             /\ EndTask(f, "written", prepare_docs_path(f), 0)
             /\ UNCHANGED injected
    /\ touched' = touched \cup {run}
    /\ UNCHANGED <<config, source_side, cache, pc, error, run, total_files, successful,
                   wiped, tree_changed>>

\* _gen_python_docs in mode "class" and _gen_notebook_docs: the path is
\* prepared, then the task is suspended in anyio.open_file, holding the gate
BeginReading(f) ==
    /\ CanBegin(f)
    /\ \/ suffix(f) = s_dot_py /\ mode = "class"
       \/ suffix(f) = s_dot_ipynb
    /\ ~prepare_raises(f)
    /\ PrepareEffect(f)
    /\ status' = [status EXCEPT ![f] = "reading"]
    /\ semaphore' = semaphore - 1
    /\ touched' = touched \cup {run}
    /\ UNCHANGED <<config, source_side, cache, pc, error, run, results, total_files,
                   successful, injected, wiped, tree_changed>>

\* the source file cannot be read, or ast.parse rejects it; caught
ReadRaises(f) ==
    /\ pc = "batch"
    /\ status[f] = "reading"
    /\ \/ f \notin tree
       \/ suffix(f) = s_dot_py /\ source_text[f] = SyntaxError
    /\ EndTask(f, "failed", <<>>, 1)
    /\ UNCHANGED <<config, source_side, out_exists, out_files, cache, pc, error, run,
                   total_files, successful, injected, wiped, touched, tree_changed>>

\* the I/O error is not caught in _process_file: gather raises it and
\* gen_docs ends with it
TaskIOError_escapes(f) ==
    /\ pc = "batch"
    /\ status[f] \in {"reading", "writing"}
    /\ f \in tree
    /\ status' = [status EXCEPT ![f] = "failed"]
    /\ semaphore' = semaphore + 1
    /\ injected' = injected \cup {f}
    /\ pc' = "error"
    /\ error' = "OSError"
    /\ UNCHANGED <<config, source_side, out_exists, out_files, cache, run, results,
                   total_files, successful, wiped, touched, tree_changed>>

\* reading, converting or writing meets an I/O error; caught
TaskIOError(f) ==
    /\ pc = "batch"
    /\ status[f] \in {"reading", "writing"}
    /\ f \in tree
    /\ EndTask(f, "failed", <<>>, 1)
    /\ injected' = injected \cup {f}
    /\ UNCHANGED <<config, source_side, out_exists, out_files, cache, pc, error, run,
                   total_files, successful, wiped, touched, tree_changed>>

\* _gen_python_docs in mode "class", lines 146-161: parse, collect, write_text
FinishPythonClassMode(f) ==
    /\ pc = "batch"
    /\ status[f] = "reading"
    /\ suffix(f) = s_dot_py
    /\ f \in tree
    /\ source_text[f] # SyntaxError
    /\ out_files' = write(out_files, prepare_docs_path(f), f,
                          note_content(f, mode, source_text[f]))
    /\ EndTask(f, "written", prepare_docs_path(f), 1)
    /\ UNCHANGED <<config, source_side, out_exists, cache, pc, error, run, total_files,
                   successful, injected, wiped, touched, tree_changed>>

\* _gen_notebook_docs, lines 166-190: read, execute, export, open docs_path "w"
NotebookOpenForWrite(f) ==
    /\ pc = "batch"
    /\ status[f] = "reading"
    /\ suffix(f) = s_dot_ipynb
    /\ f \in tree
    /\ out_files' = write(out_files, prepare_docs_path(f), f, <<>>)
    /\ status' = [status EXCEPT ![f] = "writing"]
    /\ UNCHANGED <<config, source_side, out_exists, cache, pc, error, run, semaphore,
                   results, total_files, successful, injected, wiped, touched,
                   tree_changed>>

\* _gen_notebook_docs, lines 191-192: the markdown is written
NotebookWrite(f) ==
    /\ pc = "batch"
    /\ status[f] = "writing"
    /\ out_files' = write(out_files, prepare_docs_path(f), f, markdown_output(f))
    /\ EndTask(f, "written", prepare_docs_path(f), 1)
    /\ UNCHANGED <<config, source_side, out_exists, cache, pc, error, run, total_files,
                   successful, injected, wiped, touched, tree_changed>>

\* gen_docs, lines 236-243: gather returned; the summary
Summarize ==
    /\ pc = "batch"
    /\ \A f \in source_files : Terminal(f)
    /\ successful' = Cardinality({f \in source_files : results[f] # <<>>})
    /\ pc' = "done"
    /\ UNCHANGED <<config, source_side, out_exists, out_files, cache, error, run, status,
                   semaphore, results, total_files, injected, wiped, touched,
                   tree_changed>>

\* ------------------------------------------------- between calls of gen_docs
BetweenRuns == pc \in {"done", "nofiles"} /\ run < MaxRuns

\* a file is added under the source directory
AddFile(f) ==
    /\ BetweenRuns
    /\ ~tree_changed
    /\ is_dir(source_path)
    /\ f \in TreeFiles \ tree
    /\ Cardinality(tree) < MaxFiles
    /\ tree' = tree \cup {f}
    /\ tree_changed' = TRUE
    /\ UNCHANGED <<config, dirs, source_text, out_exists, out_files, cache, pc, error,
                   run, status, semaphore, results, total_files, successful, injected,
                   wiped, touched>>

\* a source file is removed
RemoveFile(f) ==
    /\ BetweenRuns
    /\ ~tree_changed
    /\ f \in tree
    /\ tree' = tree \ {f}
    /\ tree_changed' = TRUE
    /\ UNCHANGED <<config, dirs, source_text, out_exists, out_files, cache, pc, error,
                   run, status, semaphore, results, total_files, successful, injected,
                   wiped, touched>>

\* gen_docs is called again on the same DocsGenerator object
CallAgain ==
    /\ BetweenRuns
    /\ run' = run + 1
    /\ pc' = "idle"
    /\ status' = [f \in AllFiles |-> "none"]
    /\ results' = [f \in AllFiles |-> <<>>]
    /\ semaphore' = 0
    /\ total_files' = 0
    /\ successful' = 0
    /\ injected' = {}
    /\ UNCHANGED <<config, source_side, out_exists, out_files, cache, error, wiped,
                   touched, tree_changed>>

\* ------------------------------------------------------------------ Init
Modes == {"file", "class"}

\* the trees under ./src
Trees == {t \in SUBSET TreeFiles : Cardinality(t) <= MaxFiles}

InitSource ==
    \/ /\ source_path = <<s_src>>
       /\ dirs = {<<s_src>>}
       /\ tree \in Trees
    \/ /\ source_path \in SingleFiles
       /\ dirs = {}
       /\ tree = {source_path}
    \/ /\ source_path = p_missing
       /\ dirs = {}
       /\ tree = {}

InitOutput ==
    \/ out_exists = FALSE /\ out_files = {}
    \/ out_exists = TRUE /\ out_files = {stale_stub}

Init ==
    /\ InitSource
    /\ InitOutput
    /\ exclude \in Excludes
    /\ mode \in Modes
    /\ execute \in BOOLEAN
    /\ concurrency \in (-1)..MaxConcurrency
    /\ \E a \in Asts : source_text = [f \in AllFiles |-> a]
    /\ cache = [set |-> FALSE, files |-> {}]
    /\ pc = "idle"
    /\ error = ""
    /\ run = 1
    /\ status = [f \in AllFiles |-> "none"]
    /\ semaphore = 0
    /\ results = [f \in AllFiles |-> <<>>]
    /\ total_files = 0
    /\ successful = 0
    /\ injected = {}
    /\ wiped = {}
    /\ touched = {}
    /\ tree_changed = FALSE

Next ==
    \/ GenDocsInvalidSource
    \/ GenDocsNoFiles
    \/ GenDocsBadSemaphore
    \/ GenDocsBatch
    \/ \E f \in AllFiles : BeginUnsupported(f)
    \/ \E f \in AllFiles : BeginPrepareRaises(f)
    \/ \E f \in AllFiles : BeginPrepareIOError(f)
    \/ \E f \in AllFiles : BeginPythonFileMode(f)
    \/ \E f \in AllFiles : BeginReading(f)
    \/ \E f \in AllFiles : ReadRaises(f)
    \/ \E f \in AllFiles : TaskIOError(f)
    \/ \E f \in AllFiles : FinishPythonClassMode(f)
    \/ \E f \in AllFiles : NotebookOpenForWrite(f)
    \/ \E f \in AllFiles : NotebookWrite(f)
    \/ Summarize

\* one call of gen_docs on a freshly constructed DocsGenerator, as the command
\* line makes it
Spec == Init /\ [][Next]_vars

\* gen_docs called up to MaxRuns times on one DocsGenerator, the source tree
\* changing between the calls
NextAgain ==
    \/ Next
    \/ \E f \in AllFiles : AddFile(f)
    \/ \E f \in AllFiles : RemoveFile(f)
    \/ CallAgain

SpecAgain == Init /\ [][NextAgain]_vars

\* The event loop runs every task that is ready and gen_docs resumes when
\* gather has every result: a step that stays possible is eventually taken.
\* Checked for the default --exclude, without --execute and with no output
\* directory left by an earlier job: none of them decides whether a task ends.
InitFair == Init /\ exclude = ex_default /\ ~execute /\ ~out_exists

FairSpec == InitFair /\ [][Next]_vars /\ WF_vars(Next)

TypeOK ==
    /\ pc \in {"idle", "batch", "done", "nofiles", "error"}
    /\ semaphore \in 0..(MaxConcurrency + 1)
    /\ run \in 1..MaxRuns

\* ================================================================ claims
\* the files whose generation has begun and has not completed
InFlight == {f \in AllFiles : status[f] \in {"reading", "writing"}}

\* the file would be written if nothing went wrong on the way: its type is
\* supported, its output path resolves, it can be read and parsed
WouldSucceed(f) ==
    /\ Supported(f)
    /\ ~prepare_raises(f)
    /\ (suffix(f) = s_dot_ipynb \/ mode = "class") => f \in tree
    /\ (suffix(f) = s_dot_py /\ mode = "class") => source_text[f] # SyntaxError

\* another discovered file resolves to the same output path as f
SharesOutput(f) ==
    \E g \in source_files \ {f} :
        Supported(g) /\ ~prepare_raises(g) /\ prepare_docs_path(g) = prepare_docs_path(f)

\* C1: a failure met while one file is generated is caught inside that file's
\* task: gen_docs goes on to its summary without an error, every other file is
\* processed, every file that had no failure is written (and its stub is in
\* the output directory, unless another file shares its path), and the count
\* of successes is the count of the same batch without the failures less the
\* number of failed files (one less for one failure).
C1_FailureIsolated ==
    /\ injected # {} => (pc \in {"batch", "done"} /\ error = "")
    /\ pc = "done" =>
        /\ \A f \in source_files : Terminal(f)
        /\ \A f \in injected : status[f] = "failed" /\ results[f] = <<>>
        /\ \A f \in source_files \ injected :
              WouldSucceed(f) =>
                /\ status[f] = "written"
                /\ results[f] = prepare_docs_path(f)
                /\ ~SharesOutput(f) =>
                      \E r \in out_files :
                          r.path = prepare_docs_path(f) /\ r.src = f /\ r.run = run
        /\ successful =
              Cardinality({f \in source_files : WouldSucceed(f)})
                - Cardinality({f \in injected : WouldSucceed(f)})
        /\ total_files - successful =
              Cardinality({f \in source_files : ~WouldSucceed(f)})
                + Cardinality({f \in injected : WouldSucceed(f)})

\* C1 witness: a batch of two files ends, one failed on an injected error, the
\* other written, the summary counting one success.
C1_Witness ==
    /\ pc = "done"
    /\ Cardinality(injected) = 1
    /\ total_files = 2
    /\ successful = 1
    /\ \E f \in source_files \ injected : status[f] = "written"

\* C2: while the batch runs, the gate's value is the concurrency less the files
\* in flight and is never negative, so the files in flight are at most
\* concurrency; when the batch has ended every permit is back.
C2_BoundedConcurrency ==
    /\ InFlight # {} => Cardinality(InFlight) <= concurrency
    /\ pc \in {"batch", "done"} =>
        /\ semaphore >= 0
        /\ semaphore = concurrency - Cardinality(InFlight)
    /\ pc = "done" => (InFlight = {} /\ semaphore = concurrency)

\* C2 witness: the gate is exhausted and a discovered file waits for it.
C2_Witness ==
    /\ pc = "batch"
    /\ concurrency >= 1
    /\ Cardinality(InFlight) = concurrency
    /\ \E f \in source_files : status[f] = "discovered"

\* C3 (as claimed): any two distinct discovered files whose output path
\* resolves have distinct output paths.
C3_OutputPathsDistinct ==
    cache.set =>
        \A f, g \in cache.files :
            (f # g /\ Supported(f) /\ Supported(g)
                /\ ~prepare_raises(f) /\ ~prepare_raises(g))
            => prepare_docs_path(f) # prepare_docs_path(g)

\* a top-level class whose name does not begin with an underscore
IsPublicClass(node) == node.type = "ClassDef" /\ ~startswith(node.name, <<UNDERSCORE>>)

\* the stub the claim describes for a code file in mode "class"
PublicClassLines(f) ==
    LET pub == SelectSeq(source_text[f].body, IsPublicClass)
    IN  IF pub = <<>> THEN <<file_line(f)>>
        ELSE [i \in 1..Len(pub) |-> class_line(f, pub[i])]

\* C4 (as claimed): a stub written in mode "class" for a code file holds one
\* line per top-level class without a leading underscore and no other line,
\* and is the whole-file stub when there is no such class.
C4_PublicTopLevelOnly ==
    mode = "class" =>
        \A r \in out_files :
            (r.run = run /\ suffix(r.src) = s_dot_py) =>
                /\ Len(r.content) = Len(PublicClassLines(r.src))
                /\ SeqRange(r.content) = SeqRange(PublicClassLines(r.src))

\* C5: with a directory source, once gen_docs has taken the file list the
\* output directory holds no stub of an earlier job: every file in it was
\* written in this run, for a file of this run's list.
C5_CleanSlate ==
    (is_dir(source_path) /\ pc # "idle") =>
        \A r \in out_files : r.run = run /\ r.src \in source_files

\* C5 witness: the output directory held a stale stub, was removed, and the
\* run ended with a stub of its own written.
C5_Witness ==
    /\ pc = "done"
    /\ is_dir(source_path)
    /\ run \in wiped
    /\ stale_stub \notin out_files
    /\ \E r \in out_files : r.run = run

\* C6 (as claimed): a configuration with a non-positive concurrency or an
\* invalid source never starts its batch, and when gen_docs has failed the
\* output directory was not removed and no task had begun.
C6_ConfigErrorBeforeAnyFile ==
    /\ (concurrency <= 0 \/ source_invalid) => pc \notin {"batch", "done"}
    /\ pc = "error" => (wiped = {} /\ touched = {})

\* every discovered file is in exactly one terminal state and gen_docs has
\* reached its summary with no exception
BatchComplete ==
    /\ pc = "done"
    /\ error = ""
    /\ \A f \in source_files : Terminal(f)
    /\ InFlight = {}

\* C7: with a concurrency of at least 1, a batch that has started eventually
\* reaches the summary with every discovered file written, skipped or failed.
C7_BatchCompletes == (pc = "batch" /\ concurrency >= 1) ~> BatchComplete

\* C7 witness: a batch of two files in which every file failed reached the
\* summary.
C7_Witness ==
    /\ pc = "done"
    /\ total_files = 2
    /\ \A f \in source_files : status[f] = "failed"
    /\ successful = 0

\* the fields of s between its commas, read off the string
Fields(s) ==
    {SubSeq(s, i, j) : <<i, j>> \in
        {ij \in (1..(Len(s) + 1)) \X (0..Len(s)) :
            /\ ij[1] <= ij[2] + 1
            /\ ij[1] = 1 \/ s[ij[1] - 1] = COMMA
            /\ ij[2] = Len(s) \/ s[ij[2] + 1] = COMMA
            /\ \A k \in ij[1]..ij[2] : s[k] # COMMA}}

\* t without its leading and trailing spaces, read off the string
Trimmed(t) ==
    LET solid == {i \in 1..Len(t) : t[i] # SPACE}
    IN  IF solid = {} THEN <<>>
        ELSE SubSeq(t, CHOOSE a \in solid : \A i \in solid : a <= i,
                       CHOOSE b \in solid : \A i \in solid : i <= b)

\* the segments the claim excludes
ExcludedSegments == {Trimmed(t) : t \in Fields(exclude)} \cup {s_venv, s_init_py}

HasExcludedSegment(f) == \E i \in 1..Len(f) : f[i] \in ExcludedSegments

\* C8: for a directory source, no discovered path has an excluded segment, and
\* every .py or .ipynb file under source without one is discovered.
C8_ExclusionFiltering ==
    (cache.set /\ is_dir(source_path)) =>
        /\ \A f \in cache.files : ~HasExcludedSegment(f)
        /\ \A f \in tree :
              (/\ f # source_path
               /\ is_relative_to(f, source_path)
               /\ suffix(f) \in {s_dot_py, s_dot_ipynb}
               /\ ~HasExcludedSegment(f))
              => f \in cache.files

\* C8 witness: with --exclude " x , a", src/x/b.py is left out and src/b.py is
\* discovered.
C8_Witness ==
    /\ cache.set
    /\ exclude = ex_spaced
    /\ tree = {f_x_b_py, f_b_py}
    /\ cache.files = {f_b_py}

\* C9 (as claimed): a source that is one code or notebook file, met with no
\* I/O or syntax error, is written to output/<stem>.md and counted 1 of 1; a
\* file of a directory source is written to the mirrored path.
C9_OutputPathResolves ==
    /\ (pc = "done" /\ is_file(source_path) /\ Supported(source_path)
            /\ injected = {} /\ source_text[source_path] # SyntaxError) =>
          /\ status[source_path] = "written"
          /\ results[source_path] = output_path \o <<name(with_suffix(source_path, s_dot_md))>>
          /\ successful = 1
    /\ is_dir(source_path) =>
          \A f \in source_files :
              status[f] = "written" =>
                  results[f] = output_path
                                 \o SubSeq(f, Len(source_path) + 1, Len(f) - 1)
                                 \o <<name(with_suffix(f, s_dot_md))>>

\* C10 (as claimed): a later call of gen_docs on the same object works on the
\* files that are there when it is made, and removes the output directory
\* again.
C10_FreshDiscovery ==
    (run >= 2 /\ pc \in {"batch", "done", "nofiles"} /\ ~tree_changed
        /\ is_dir(source_path)) =>
        /\ source_files = compute_source_files
        /\ \A r \in out_files : r.run = run

====
